---- MODULE Spec2Model ----
(***************************************************************************)
(* A model of the profile scraper: the LinkedIn pipeline (configuration    *)
(* load, actor call, paginated dataset read, normalization, CSV and JSON   *)
(* export), the GitHub pipeline (one GET per username, CSV and JSON        *)
(* export) and the module-level script that runs one after the other.      *)
(*                                                                         *)
(* Python values are tagged records, so that None, a str and an int are    *)
(* distinct values that can be compared; a str is a sequence of one-       *)
(* character strings; a dict is a function whose DOMAIN is its key set.    *)
(***************************************************************************)
EXTENDS Integers, Sequences, FiniteSets, TLC

VARIABLES
    pc,              \* position of the running program
    exc,             \* the exception that ended the run (NoExc while running)
    page_size,       \* LinkedinWebScraper.page_size
    dataset,         \* the items of the actor run's default dataset (remote)
    config_load,     \* outcome of get_actor_config
    actor_outcome,   \* outcome of the actor call ("not_called" until it is made)
    actor_calls,     \* number of calls made to ApifyClient.actor(..).call
    actor_call,      \* LinkedinWebScraper.actor_call
    dataset_client,  \* LinkedinWebScraper.dataset_client
    caller,          \* the method that called get_all_profiles
    all_profiles,    \* get_all_profiles: local all_profiles
    offset,          \* get_all_profiles: local offset
    requests,        \* list_items calls of the current get_all_profiles call
    ret,             \* value returned by the last completed get_all_profiles
    profiles,        \* save_results: local profiles (normalized records)
    formatted,       \* get_formatted_results: local formatted_profiles
    linkedin_csv,    \* the file linkedin_profiles.csv
    stdout,          \* what the script printed
    log,             \* logging.error records
    usernames,       \* GitHubWebScraper.usernames
    gh_i,            \* fetch_profiles: index of the next username
    response,        \* fetch_profiles: local response
    lookups,         \* outcome of each GET issued so far, in order
    github_profiles, \* GitHubWebScraper.github_profiles
    github_csv,      \* the file github_profile.csv
    raw,             \* a raw record handed to LinkedInProfile.from_api_response
    normalized       \* its result

vars == <<pc, exc, page_size, dataset, config_load, actor_outcome, actor_calls,
          actor_call, dataset_client, caller, all_profiles, offset, requests,
          ret, profiles, formatted, linkedin_csv, stdout, log, usernames, gh_i,
          response, lookups, github_profiles, github_csv, raw, normalized>>

linkedinVars == <<page_size, dataset, config_load, actor_outcome, actor_calls,
                  actor_call, dataset_client, caller, all_profiles, offset,
                  requests, ret, profiles, formatted, linkedin_csv>>

githubVars == <<usernames, gh_i, response, lookups, github_profiles, github_csv>>

normVars == <<raw, normalized>>

(***************************************************************************)
(* Bounds of the model.                                                    *)
(***************************************************************************)
MaxItems == 4        \* longest dataset
MaxPageSize == 3     \* largest page_size a caller passes
MaxUsers == 5        \* longest username list a caller passes

(***************************************************************************)
(* Python values.                                                          *)
(***************************************************************************)
None == [type |-> "NoneType"]
StrV(s) == [type |-> "str", val |-> s]
IntV(n) == [type |-> "int", num |-> n]
ListV(s) == [type |-> "list", items |-> s]

EmptyStr == StrV(<< >>)
EmptyDict == << >>

\* dict.get(key, default)
Get(d, key, default) == IF key \in DOMAIN d THEN d[key] ELSE default

\* bool(v) for None, a str, an int and a list
Truthy(v) ==
    CASE v.type = "NoneType" -> FALSE
      [] v.type = "str" -> v.val # << >>
      [] v.type = "int" -> v.num # 0
      [] v.type = "list" -> v.items # << >>

RECURSIVE Digits(_)
\* str(n) for n >= 0
Digits(n) ==
    LET d == <<"0", "1", "2", "3", "4", "5", "6", "7", "8", "9">>
    IN  IF n < 10 THEN <<d[n + 1]>> ELSE Digits(n \div 10) \o <<d[(n % 10) + 1]>>

\* format(v): what an f-string or str() makes of a value
Format(v) ==
    CASE v.type = "NoneType" -> <<"N", "o", "n", "e">>
      [] v.type = "str" -> v.val
      [] v.type = "int" -> Digits(v.num)

RECURSIVE LStrip(_)
LStrip(s) == IF s # << >> /\ Head(s) = " " THEN LStrip(Tail(s)) ELSE s

RECURSIVE RStrip(_)
RStrip(s) ==
    IF s # << >> /\ s[Len(s)] = " " THEN RStrip(SubSeq(s, 1, Len(s) - 1)) ELSE s

\* str.strip()
Strip(s) == RStrip(LStrip(s))

(***************************************************************************)
(* models.py: LinkedInProfile.                                             *)
(***************************************************************************)
HasFirst(profile, key) == key \in DOMAIN profile /\ Truthy(profile[key])

_get_position(profile) ==
    IF HasFirst(profile, "positions")
    THEN Get(profile["positions"].items[1], "title", EmptyStr)
    ELSE Get(profile, "occupation", EmptyStr)

_get_company(profile) ==
    IF HasFirst(profile, "positions")
    THEN Get(profile["positions"].items[1], "companyName", EmptyStr)
    ELSE EmptyStr

_get_education(profile) ==
    IF HasFirst(profile, "educations")
    THEN Get(profile["educations"].items[1], "schoolName", EmptyStr)
    ELSE EmptyStr

_get_name(profile) ==
    StrV(Strip(Format(Get(profile, "firstName", EmptyStr)) \o <<" ">>
               \o Format(Get(profile, "lastName", EmptyStr))))

from_api_response(profile) ==
    [name |-> _get_name(profile),
     position |-> _get_position(profile),
     company |-> _get_company(profile),
     location |-> Get(profile, "geoLocationName", EmptyStr),
     connections |-> Get(profile, "connectionsCount", IntV(0)),
     education |-> _get_education(profile)]

(***************************************************************************)
(* Raw LinkedIn records: every key absent, null or set.                    *)
(***************************************************************************)
Opt(key, values) == {EmptyDict} \cup {key :> v : v \in values}

Positions ==
    {a @@ b : a \in Opt("title", {None, StrV(<<"T">>)}),
              b \in Opt("companyName", {None, StrV(<<"C">>)})}

Educations == Opt("schoolName", {None, StrV(<<"S">>)})

RawRecords ==
    {f @@ l @@ o @@ g @@ c @@ p @@ e :
        f \in Opt("firstName", {None, EmptyStr, StrV(<<"A">>)}),
        l \in Opt("lastName", {None, StrV(<<"B">>)}),
        o \in Opt("occupation", {None, StrV(<<"O">>)}),
        g \in Opt("geoLocationName", {None, StrV(<<"L">>)}),
        c \in Opt("connectionsCount", {None, IntV(12)}),
        p \in Opt("positions",
                  {None, ListV(<< >>)} \cup {ListV(<<x>>) : x \in Positions}),
        e \in Opt("educations",
                  {None, ListV(<< >>)} \cup {ListV(<<x>>) : x \in Educations})}

NoRecord == [name |-> None, position |-> None, company |-> None,
             location |-> None, connections |-> None, education |-> None]

(***************************************************************************)
(* Serialization: json.dumps and csv.DictWriter.                           *)
(***************************************************************************)
LinkedinFields ==
    <<"name", "position", "company", "location", "connections", "education">>

\* json.dumps of a scalar, as tokens
JsonValue(v) ==
    CASE v.type = "NoneType" -> <<"null">>
      [] v.type = "str" -> <<"\"">> \o v.val \o <<"\"">>
      [] v.type = "int" -> Digits(v.num)

RECURSIVE JsonMembers(_, _, _)
JsonMembers(d, keys, i) ==
    IF i > Len(keys) THEN << >>
    ELSE (IF i > 1 THEN <<",">> ELSE << >>)
         \o <<"\"", keys[i], "\"", ":">> \o JsonValue(d[keys[i]])
         \o JsonMembers(d, keys, i + 1)

JsonObject(d, keys) == <<"{">> \o JsonMembers(d, keys, 1) \o <<"}">>

RECURSIVE JsonElements(_, _, _)
JsonElements(list, keys, i) ==
    IF i > Len(list) THEN << >>
    ELSE (IF i > 1 THEN <<",">> ELSE << >>)
         \o JsonObject(list[i], keys) \o JsonElements(list, keys, i + 1)

\* json.dumps(list, indent=2), as tokens; the layout is left out
JsonDumps(list, keys) ==
    IF list = << >> THEN <<"[]">>
    ELSE <<"[">> \o JsonElements(list, keys, 1) \o <<"]">>

\* csv: None is written as the empty field, anything else as str(value)
CsvField(v) == IF v.type = "NoneType" THEN << >> ELSE Format(v)

CsvRow(d, keys) == [i \in 1..Len(keys) |-> CsvField(d[keys[i]])]

CsvFile(header, list, keys) ==
    [exists |-> TRUE,
     rows |-> <<[i \in 1..Len(header) |-> <<header[i]>>]>>
              \o [i \in 1..Len(list) |-> CsvRow(list[i], keys)]]

NoFile == [exists |-> FALSE, rows |-> << >>]

(***************************************************************************)
(* The remote world: the dataset the actor run produced.                   *)
(***************************************************************************)
\* the i-th item of the dataset: items differ, and are full, sparse or null-valued
RawItem(i) ==
    CASE i % 3 = 1 ->
           [firstName |-> StrV(<<"A">>), lastName |-> StrV(<<"B">>),
            occupation |-> StrV(<<"O">>), geoLocationName |-> StrV(<<"L">>),
            connectionsCount |-> IntV(i),
            positions |-> ListV(<<[title |-> StrV(<<"T">>),
                                   companyName |-> StrV(<<"C">>)]>>),
            educations |-> ListV(<<[schoolName |-> StrV(<<"S">>)]>>)]
      [] i % 3 = 2 ->
           [firstName |-> None, occupation |-> StrV(<<"O">>),
            geoLocationName |-> None, connectionsCount |-> IntV(i)]
      [] OTHER ->
           [lastName |-> StrV(<<"B">>), positions |-> ListV(<< >>),
            connectionsCount |-> IntV(i)]

Datasets == {[i \in 1..n |-> RawItem(i)] : n \in 0..MaxItems}

Min(a, b) == IF a < b THEN a ELSE b

\* DatasetClient.list_items(offset, limit).items: the items at positions
\* [offset, offset + limit) that exist
list_items(ds, off, lim) == SubSeq(ds, off + 1, Min(off + lim, Len(ds)))

PageReadOutcomes == {"ok", "ApifyApiError"}

(***************************************************************************)
(* main.py: LinkedinWebScraper.                                            *)
(***************************************************************************)
DefaultPageSize == 100

ConfigLoadOutcomes == {"ok", "FileNotFoundError", "Exception"}

\* __init__, lines 28-35: the config, or None when it could not be loaded
ConfigOf(load) == IF load = "ok" THEN "config" ELSE "None"

ActorOk == [kind |-> "ok"]
ActorNotCalled == [kind |-> "not_called"]
ActorErrors ==
    {[kind |-> "ApifyApiError", status_code |-> s, text_has_hint |-> h] :
        s \in {429, 500}, h \in BOOLEAN}
ActorOutcomes == {ActorOk} \cup ActorErrors

\* the actor call's error handler leaves the run object in place
ActorCallResult_NoReset(outcome) == "run"

\* __init__, lines 39-48: the value of self.actor_call
ActorCallResult(outcome) == IF outcome.kind = "ok" THEN "run" ELSE "None"

\* __init__, lines 50-56: the value of self.dataset_client
DatasetClientOf(call) == IF call # "None" THEN "dataset" ELSE "None"

\* __init__, lines 44-46: what the except branch prints
ActorErrorPrints(outcome) ==
    IF outcome.kind = "ok" THEN << >>
    ELSE <<<<"Error while running actor">>>>
         \o (IF outcome.text_has_hint
             THEN <<<<"Detected possible rate limit or scraping block.">>>>
             ELSE << >>)

ConfigErrorLog(load) ==
    CASE load = "ok" -> << >>
      [] load = "FileNotFoundError" -> <<"Configuration file not found">>
      [] OTHER -> <<"Error reading configuration file">>

NoExc == [type |-> "none", raised_in |-> "none"]

\* an exception of type e, raised in method m and caught nowhere, ends the run
Raise(e, m) == pc' = "crashed" /\ exc' = [type |-> e, raised_in |-> m]

LinkedinInit(p) ==
    /\ pc = "linkedin_init"
    /\ \E load \in ConfigLoadOutcomes, outcome \in ActorOutcomes :
          /\ config_load' = load
          /\ log' = log \o ConfigErrorLog(load)
          /\ page_size' = p
          /\ IF ConfigOf(load) = "None"
             THEN \* config["actor_name"] raises TypeError, which is not caught
                  /\ Raise("TypeError", "__init__")
                  /\ UNCHANGED <<actor_outcome, actor_calls, actor_call,
                                 dataset_client, stdout>>
             ELSE /\ actor_outcome' = outcome
                  /\ actor_calls' = actor_calls + 1
                  /\ actor_call' = ActorCallResult(outcome)
                  /\ dataset_client' = DatasetClientOf(actor_call')
                  /\ stdout' = stdout \o ActorErrorPrints(outcome)
                  /\ pc' = "save_results"
                  /\ exc' = exc
    /\ UNCHANGED <<dataset, caller, all_profiles, offset, requests, ret,
                   profiles, formatted, linkedin_csv>>
    /\ UNCHANGED githubVars
    /\ UNCHANGED normVars

\* a failed read is read again, and the second read succeeds
get_profiles_page_Retry(outcome, ds, off, lim) == list_items(ds, off, lim)

\* get_profiles_page, lines 60-64, on a dataset client that is not None
get_profiles_page(outcome, ds, off, lim) ==
    IF outcome = "ok" THEN list_items(ds, off, lim) ELSE << >>

\* get_all_profiles, line 77
Extend(all, page) == all \o page

\* the offset skips one item at each page
NextOffset_Skip(off, p) == off + p + 1

\* the offset advances by one item, whatever the page size
NextOffset_ByOne(off, p) == off + 1

\* get_all_profiles, line 78
NextOffset(off, p) == off + p

\* the statement get_all_profiles returns to
ReturnTo(c) == IF c = "save_results" THEN "save_results_write" ELSE "format"

\* get_all_profiles, lines 68-69, entered from method c
CallGetAllProfiles(c) ==
    /\ caller' = c
    /\ all_profiles' = << >>
    /\ offset' = 0
    /\ requests' = << >>
    /\ pc' = "get_all_profiles"

\* save_results, line 111
SaveResultsCall ==
    /\ pc = "save_results"
    /\ CallGetAllProfiles("save_results")
    /\ UNCHANGED <<exc, page_size, dataset, config_load, actor_outcome,
                   actor_calls, actor_call, dataset_client, ret, profiles,
                   formatted, linkedin_csv, stdout, log>>
    /\ UNCHANGED githubVars
    /\ UNCHANGED normVars

\* one iteration of the loop of get_all_profiles, lines 71-84
GetProfilesPage ==
    /\ pc = "get_all_profiles"
    /\ IF dataset_client = "None"
       THEN \* None.list_items raises AttributeError, which get_profiles_page
            \* does not catch; save_results logs it and raises it again
            /\ Raise("AttributeError", "get_profiles_page")
            /\ log' = log \o (IF caller = "save_results"
                              THEN <<"Failed to save profiles">> ELSE << >>)
            /\ UNCHANGED <<all_profiles, offset, requests, ret>>
       ELSE \E outcome \in PageReadOutcomes :
               LET profiles_page ==
                       get_profiles_page(outcome, dataset, offset, page_size)
               IN  /\ requests' = Append(requests,
                                         [offset |-> offset, limit |-> page_size,
                                          outcome |-> outcome,
                                          n |-> Len(profiles_page)])
                   /\ log' = log \o (IF outcome = "ok" THEN << >>
                                     ELSE <<"Failed to fetch page">>)
                   /\ exc' = exc
                   /\ IF profiles_page = << >>
                      THEN /\ ret' = all_profiles
                           /\ pc' = ReturnTo(caller)
                           /\ UNCHANGED <<all_profiles, offset>>
                      ELSE /\ all_profiles' = Extend(all_profiles, profiles_page)
                           /\ offset' = NextOffset(offset, page_size)
                           /\ UNCHANGED <<pc, ret>>
    /\ UNCHANGED <<page_size, dataset, config_load, actor_outcome, actor_calls,
                   actor_call, dataset_client, caller, profiles, formatted,
                   linkedin_csv, stdout>>
    /\ UNCHANGED githubVars
    /\ UNCHANGED normVars

Normalize(list) == [i \in 1..Len(list) |-> from_api_response(list[i])]

\* save_results, lines 112-134; the script then prints the heading, line 265
SaveResultsWrite ==
    /\ pc = "save_results_write"
    /\ profiles' = Normalize(ret)
    /\ \E written \in BOOLEAN :
          IF written
          THEN /\ linkedin_csv' = CsvFile(LinkedinFields, profiles', LinkedinFields)
               /\ stdout' = Append(stdout, <<"Linkedin Output:">>)
               /\ pc' = "get_formatted_results"
               /\ UNCHANGED <<exc, log>>
          ELSE /\ Raise("OSError", "save_results")
               /\ log' = Append(log, "Failed to save profiles")
               /\ UNCHANGED <<linkedin_csv, stdout>>
    /\ UNCHANGED <<page_size, dataset, config_load, actor_outcome, actor_calls,
                   actor_call, dataset_client, caller, all_profiles, offset,
                   requests, ret, formatted>>
    /\ UNCHANGED githubVars
    /\ UNCHANGED normVars

\* get_formatted_results, line 88
GetFormattedResultsCall ==
    /\ pc = "get_formatted_results"
    /\ CallGetAllProfiles("get_formatted_results")
    /\ UNCHANGED <<exc, page_size, dataset, config_load, actor_outcome,
                   actor_calls, actor_call, dataset_client, ret, profiles,
                   formatted, linkedin_csv, stdout, log>>
    /\ UNCHANGED githubVars
    /\ UNCHANGED normVars

\* get_formatted_results, line 88, called on a scraper just constructed
DirectGetFormattedResults ==
    /\ pc = "save_results"
    /\ CallGetAllProfiles("get_formatted_results")
    /\ UNCHANGED <<exc, page_size, dataset, config_load, actor_outcome,
                   actor_calls, actor_call, dataset_client, ret, profiles,
                   formatted, linkedin_csv, stdout, log>>
    /\ UNCHANGED githubVars
    /\ UNCHANGED normVars

\* get_formatted_results, lines 89-97, and the print of line 266
PrintFormattedResults ==
    /\ pc = "format"
    /\ formatted' = Normalize(ret)
    /\ stdout' = Append(stdout, JsonDumps(formatted', LinkedinFields))
    /\ pc' = "github_init"
    /\ UNCHANGED <<exc, page_size, dataset, config_load, actor_outcome,
                   actor_calls, actor_call, dataset_client, caller,
                   all_profiles, offset, requests, ret, profiles,
                   linkedin_csv, log>>
    /\ UNCHANGED githubVars
    /\ UNCHANGED normVars

(***************************************************************************)
(* main.py: GitHubWebScraper.                                              *)
(***************************************************************************)
ScriptUsernames == <<"wincent", "jericho1050", "brianyu2", "dmalan", "torvalds">>

UsernameLists ==
    {[i \in 1..n |-> ScriptUsernames[((i - 1) % Len(ScriptUsernames)) + 1]] :
        n \in 0..MaxUsers}

\* requests.get: a response with a status code, or no response at all
GetOutcomes ==
    {[kind |-> "response", status_code |-> s] : s \in {200, 404, 403, 500}}
    \cup {[kind |-> "ConnectionError"]}

Unbound == [bound |-> FALSE]
Bound(s) == [bound |-> TRUE, status_code |-> s]

\* only a server error counts as a failure
HttpError_ServerOnly(status) == status >= 500 /\ status < 600

\* Response.raise_for_status raises HTTPError for a 4xx or 5xx status
HttpError(status) == status >= 400 /\ status < 600

\* the user object the API returns with a 200 for the i-th username;
\* name and bio may be null
ApiUser(i, username) ==
    [login |-> StrV(<<username>>),
     name |-> IF i % 2 = 1 THEN StrV(<<"N">>) ELSE None,
     bio |-> IF i % 3 = 1 THEN StrV(<<"B">>) ELSE None,
     public_repos |-> IntV(i),
     followers |-> IntV(10 * i)]

\* fetch_profiles, lines 190-196
GitHubProfileOf(data) ==
    [username |-> data["login"],
     full_name |-> Get(data, "name", None),
     bio |-> Get(data, "bio", None),
     public_repos |-> data["public_repos"],
     followers |-> data["followers"]]

\* fetch_profiles, lines 201-206: the except branch reads response.status_code
ErrorLogFor(resp) ==
    CASE resp.status_code = 404 -> "User not found"
      [] resp.status_code = 403 -> "API rate limit exceeded"
      [] OTHER -> "Error"

GitHubFields == <<"username", "full_name", "bio", "public_repos", "followers">>

GitHubHeader ==
    <<"Username", "Fullname", "Bio", "Number of public repositories",
      "Number of followers">>

\* where fetch_profiles goes after the username at index i
AfterUsername(i, names) == IF i >= Len(names) THEN "github_save" ELSE "fetch_profiles"

\* __init__, lines 165-177, up to the call of fetch_profiles
GitHubInit(names) ==
    /\ pc = "github_init"
    /\ usernames' = names
    /\ github_profiles' = << >>
    /\ gh_i' = 1
    /\ pc' = AfterUsername(0, names)
    /\ UNCHANGED <<exc, stdout, log, response, lookups, github_csv>>
    /\ UNCHANGED linkedinVars
    /\ UNCHANGED normVars

\* one iteration of the loop of fetch_profiles, lines 181-206
FetchProfile ==
    /\ pc = "fetch_profiles"
    /\ \E outcome \in GetOutcomes :
          /\ lookups' = Append(lookups, outcome)
          /\ IF outcome.kind = "response"
             THEN /\ response' = Bound(outcome.status_code)
                  /\ IF HttpError(outcome.status_code)
                     THEN /\ log' = Append(log, ErrorLogFor(response'))
                          /\ UNCHANGED github_profiles
                     ELSE /\ github_profiles' =
                                Append(github_profiles,
                                       GitHubProfileOf(ApiUser(gh_i, usernames[gh_i])))
                          /\ UNCHANGED log
                  /\ gh_i' = gh_i + 1
                  /\ pc' = AfterUsername(gh_i, usernames)
                  /\ UNCHANGED exc
             ELSE \* requests.get raised: response keeps the value of the
                  \* previous iteration, or is unbound in the first one
                  /\ UNCHANGED <<response, github_profiles>>
                  /\ IF response.bound
                     THEN /\ log' = Append(log, ErrorLogFor(response))
                          /\ gh_i' = gh_i + 1
                          /\ pc' = AfterUsername(gh_i, usernames)
                          /\ UNCHANGED exc
                     ELSE /\ Raise("UnboundLocalError", "fetch_profiles")
                          /\ UNCHANGED <<log, gh_i>>
    /\ UNCHANGED <<stdout, usernames, github_csv>>
    /\ UNCHANGED linkedinVars
    /\ UNCHANGED normVars

\* save_results, lines 234-258; the script then prints the heading, line 274
GitHubSaveResults ==
    /\ pc = "github_save"
    /\ \E written \in BOOLEAN :
          IF written
          THEN /\ github_csv' = CsvFile(GitHubHeader, github_profiles, GitHubFields)
               /\ stdout' = Append(stdout, <<"Github Output:">>)
               /\ pc' = "github_print"
               /\ UNCHANGED exc
          ELSE /\ Raise("OSError", "save_results")
               /\ UNCHANGED <<github_csv, stdout>>
    /\ UNCHANGED <<log, usernames, gh_i, response, lookups, github_profiles>>
    /\ UNCHANGED linkedinVars
    /\ UNCHANGED normVars

\* get_formatted_results, lines 210-221, and the print of line 275
GitHubPrint ==
    /\ pc = "github_print"
    /\ stdout' = Append(stdout, JsonDumps(github_profiles, GitHubFields))
    /\ pc' = "done"
    /\ UNCHANGED <<exc, log>>
    /\ UNCHANGED githubVars
    /\ UNCHANGED linkedinVars
    /\ UNCHANGED normVars

(***************************************************************************)
(* The module-level script, lines 261-275, and the classes used alone.     *)
(***************************************************************************)
NotStarted ==
    /\ exc = NoExc
    /\ config_load = "not_loaded"
    /\ actor_outcome = ActorNotCalled
    /\ actor_calls = 0
    /\ actor_call = "unset"
    /\ dataset_client = "unset"
    /\ caller = "none"
    /\ all_profiles = << >>
    /\ offset = 0
    /\ requests = << >>
    /\ ret = << >>
    /\ profiles = << >>
    /\ formatted = << >>
    /\ linkedin_csv = NoFile
    /\ stdout = << >>
    /\ log = << >>
    /\ usernames = << >>
    /\ gh_i = 1
    /\ response = Unbound
    /\ lookups = << >>
    /\ github_profiles = << >>
    /\ github_csv = NoFile
    /\ raw = EmptyDict
    /\ normalized = NoRecord

\* line 262: LinkedinWebScraper()
ScriptLinkedinInit == LinkedinInit(DefaultPageSize)

\* lines 269-271: GitHubWebScraper(usernames=[...])
ScriptGitHubInit == GitHubInit(ScriptUsernames)

Init ==
    /\ pc = "linkedin_init"
    /\ page_size = DefaultPageSize
    /\ dataset \in Datasets
    /\ NotStarted

Next ==
    \/ ScriptLinkedinInit
    \/ SaveResultsCall
    \/ GetProfilesPage
    \/ SaveResultsWrite
    \/ GetFormattedResultsCall
    \/ PrintFormattedResults
    \/ ScriptGitHubInit
    \/ FetchProfile
    \/ GitHubSaveResults
    \/ GitHubPrint

Spec == Init /\ [][Next]_vars

\* LinkedinWebScraper(page_size=p) for any p > 0, then save_results and
\* get_formatted_results as the script calls them, or get_formatted_results
\* alone
NewLinkedinScraper == \E p \in 1..MaxPageSize : LinkedinInit(p)

NextLinkedin ==
    \/ NewLinkedinScraper
    \/ SaveResultsCall
    \/ DirectGetFormattedResults
    \/ GetProfilesPage
    \/ SaveResultsWrite
    \/ GetFormattedResultsCall
    \/ PrintFormattedResults

SpecLinkedin == Init /\ [][NextLinkedin]_vars

\* every step of the single-threaded program is eventually taken
FairLinkedin == SpecLinkedin /\ WF_vars(NextLinkedin)

\* GitHubWebScraper(usernames) for any list, then save_results and
\* get_formatted_results as the script calls them
NewGitHubScraper == \E names \in UsernameLists : GitHubInit(names)

InitGitHub ==
    /\ pc = "github_init"
    /\ page_size = DefaultPageSize
    /\ dataset = << >>
    /\ NotStarted

NextGitHub ==
    \/ NewGitHubScraper
    \/ FetchProfile
    \/ GitHubSaveResults
    \/ GitHubPrint

SpecGitHub == InitGitHub /\ [][NextGitHub]_vars

\* LinkedInProfile.from_api_response applied to one raw record
ApplyFromApiResponse ==
    /\ pc = "normalize"
    /\ normalized' = from_api_response(raw)
    /\ pc' = "normalized"
    /\ UNCHANGED <<exc, stdout, log, raw>>
    /\ UNCHANGED linkedinVars
    /\ UNCHANGED githubVars

InitNorm ==
    /\ pc = "normalize"
    /\ page_size = DefaultPageSize
    /\ dataset = << >>
    /\ exc = NoExc
    /\ config_load = "not_loaded"
    /\ actor_outcome = ActorNotCalled
    /\ actor_calls = 0
    /\ actor_call = "unset"
    /\ dataset_client = "unset"
    /\ caller = "none"
    /\ all_profiles = << >>
    /\ offset = 0
    /\ requests = << >>
    /\ ret = << >>
    /\ profiles = << >>
    /\ formatted = << >>
    /\ linkedin_csv = NoFile
    /\ stdout = << >>
    /\ log = << >>
    /\ usernames = << >>
    /\ gh_i = 1
    /\ response = Unbound
    /\ lookups = << >>
    /\ github_profiles = << >>
    /\ github_csv = NoFile
    /\ raw \in RawRecords
    /\ normalized = NoRecord

NextNorm == ApplyFromApiResponse

SpecNorm == InitNorm /\ [][NextNorm]_vars

(***************************************************************************)
(* Properties.                                                             *)
(***************************************************************************)
\* get_all_profiles has returned to its caller, which has not yet gone on
Returned == pc \in {"save_results_write", "format"}

NoReadFailed == \A i \in DOMAIN requests : requests[i].outcome = "ok"

Last(s) == s[Len(s)]

\* C1: with a reader that returns exactly the items at [offset, offset+limit)
\* and never fails, get_all_profiles returns the dataset's items, each once
\* and in order; and a call on a dataset client always comes to its return.
C1_ReturnsDataset ==
    /\ [](Returned /\ NoReadFailed => ret = dataset)
    /\ (pc = "get_all_profiles" /\ dataset_client # "None") ~> Returned

C1_Witness ==
    /\ Returned
    /\ NoReadFailed
    /\ page_size = 3
    /\ Len(dataset) = 4
    /\ Len(requests) = 3
    /\ ret = dataset

\* C3: an ApifyApiError on the actor call (HTTP 429 included) is not raised
\* by the constructor, the call was made once, and actor_call and
\* dataset_client are None.
C3_LaunchErrorUnavailable ==
    actor_outcome.kind = "ApifyApiError" =>
        /\ exc.raised_in # "__init__"
        /\ actor_calls = 1
        /\ actor_call = "None"
        /\ dataset_client = "None"

C3_Witness ==
    /\ pc = "save_results"
    /\ actor_outcome.kind = "ApifyApiError"
    /\ actor_outcome.status_code = 429
    /\ actor_call = "None"
    /\ exc = NoExc

\* C7: a failed page read is not raised and not repeated: it is the last
\* request of the call, the loop has stopped, and what is returned is the
\* items before the failing offset.
C7_FailedReadEndsLoop ==
    \A i \in DOMAIN requests :
        requests[i].outcome = "ApifyApiError" =>
            /\ i = Len(requests)
            /\ pc # "get_all_profiles"
            /\ exc.raised_in \notin {"get_profiles_page", "get_all_profiles"}
            /\ ret = SubSeq(dataset, 1, Min(requests[i].offset, Len(dataset)))

C7_Witness ==
    /\ Returned
    /\ Len(requests) = 2
    /\ Last(requests).outcome = "ApifyApiError"
    /\ Last(requests).offset < Len(dataset)
    /\ ret = SubSeq(dataset, 1, Last(requests).offset)
    /\ ret # dataset

\* C10: the i-th request of a call is (offset (i-1)*page_size, limit
\* page_size); an empty page is the last request of the call; and on an
\* empty dataset the call returns the empty list after one request.
C10_RequestSequence ==
    /\ \A i \in DOMAIN requests :
          /\ requests[i].offset = (i - 1) * page_size
          /\ requests[i].limit = page_size
          /\ requests[i].n = 0 => i = Len(requests) /\ pc # "get_all_profiles"
    /\ Returned /\ dataset = << >> => ret = << >> /\ Len(requests) = 1
    /\ Returned => requests # << >> /\ Last(requests).n = 0

C10_Witness ==
    /\ Returned
    /\ page_size = 2
    /\ Len(requests) = 3
    /\ requests[3].offset = 4
    /\ NoReadFailed
    /\ Last(requests).n = 0

\* C2: after a failed launch (dataset_client is None) get_formatted_results
\* does not raise, reads no page and returns "[]".
C2_UnavailableGivesEmptyJson ==
    dataset_client = "None" /\ caller = "get_formatted_results" =>
        /\ exc = NoExc
        /\ requests = << >>
        /\ pc = "github_init" => Last(stdout) = <<"[]">>

\* C4: when the configuration cannot be loaded the constructor does not
\* raise, makes no actor call, and leaves actor_call and dataset_client None.
C4_ConfigFailureUnavailable ==
    config_load \in {"FileNotFoundError", "Exception"} =>
        /\ exc.raised_in # "__init__"
        /\ actor_calls = 0
        /\ actor_call = "None"
        /\ dataset_client = "None"

\* fetch_profiles has returned and the constructor with it
Constructed ==
    \/ pc \in {"github_save", "github_print", "done"}
    \/ pc = "crashed" /\ exc.raised_in = "save_results"

\* C5: fetch_profiles never raises for a failed lookup, wherever in the list
\* it fails, and every username is requested.
C5_FetchNeverRaises ==
    /\ exc.raised_in # "fetch_profiles"
    /\ Constructed => Len(lookups) = Len(usernames)

IsStatus(lookup, s) == lookup.kind = "response" /\ lookup.status_code = s

RECURSIVE ProfilesOf200(_, _, _)
\* the profiles of the usernames from index i on whose lookup returned 200
ProfilesOf200(names, outcomes, i) ==
    IF i > Len(names) THEN << >>
    ELSE (IF IsStatus(outcomes[i], 200)
          THEN <<GitHubProfileOf(ApiUser(i, names[i]))>> ELSE << >>)
         \o ProfilesOf200(names, outcomes, i + 1)

CountStatus(outcomes, s) ==
    Cardinality({i \in DOMAIN outcomes : IsStatus(outcomes[i], s)})

\* C6: once the scraper is constructed, github_profiles is the profiles of
\* the usernames whose lookup returned 200, in the order of the usernames,
\* with none for a 404; five usernames with one 404 give four profiles.
C6_ProfilesAreThe200s ==
    Constructed =>
        /\ github_profiles = ProfilesOf200(usernames, lookups, 1)
        /\ Len(usernames) = 5 /\ CountStatus(lookups, 404) = 1
               /\ CountStatus(lookups, 200) = 4
           => Len(github_profiles) = 4

C6_Witness ==
    /\ pc = "github_save"
    /\ Len(usernames) = 5
    /\ CountStatus(lookups, 200) = 4
    /\ IsStatus(lookups[2], 404)
    /\ Len(github_profiles) = 4
    /\ github_profiles[2].username = StrV(<<"brianyu2">>)

\* C8: the run ends early only when a CSV file could not be written.
C8_OnlyCsvFailureEndsRun ==
    pc = "crashed" => exc.type = "OSError" /\ exc.raised_in = "save_results"

IsStr(v) == v.type = "str"

\* C9: from_api_response returns strings for name, position, company,
\* location and education and an integer for connections, whatever the raw
\* record; without positions, educations, geoLocationName and
\* connectionsCount these are "", "", "", "" and 0.
C9_NormalizeTotal ==
    pc = "normalized" =>
        /\ IsStr(normalized.name)
        /\ IsStr(normalized.position)
        /\ IsStr(normalized.company)
        /\ IsStr(normalized.location)
        /\ IsStr(normalized.education)
        /\ normalized.connections.type = "int"
        /\ DOMAIN raw \cap {"positions", "educations", "geoLocationName",
                            "connectionsCount", "occupation"} = {}
           => /\ normalized.position = EmptyStr
              /\ normalized.company = EmptyStr
              /\ normalized.education = EmptyStr
              /\ normalized.location = EmptyStr
              /\ normalized.connections = IntV(0)

\* save_results has written the CSV and get_formatted_results has returned
BothSerialized == pc = "github_init" /\ linkedin_csv.exists

\* C11: within one run the records written to the CSV and the records
\* printed as JSON are the same normalized records in the same order,
\* whatever the outcome of each page read.
C11_CsvAndJsonSameRecords ==
    BothSerialized =>
        /\ formatted = profiles
        /\ linkedin_csv = CsvFile(LinkedinFields, formatted, LinkedinFields)
        /\ Last(stdout) = JsonDumps(profiles, LinkedinFields)

====
